---- MODULE Spec2Model ----
(***************************************************************************)
(* Verification model of network_topology_optimization:                    *)
(*   - the generic traversal engine (core/core.py, core/itertools.py),     *)
(*   - the topology coordinates and their move spaces (topology/*.py).     *)
(*                                                                         *)
(* Spec       : the traversal engine on an arbitrary small coordinate      *)
(*              graph, one action per call and per round of a generator.   *)
(* SpecExplore, SpecExploreFair : explore alone; with weak fairness of its  *)
(*              steps for a consumer that exhausts the generator.          *)
(* SpecSplits : core/itertools.splits as a pure function of its arguments. *)
(* SpecTopo   : the spaces of a net (make_e_space, make_n_space,           *)
(*              node_splits) and the walk over its topology coordinates    *)
(*              by child and parent moves, simple or coupled; the guard    *)
(*              builders degree_guard and k_edge_guard.                    *)
(* SpecWrap   : the composed guard (topology/guards.GuardWrapper), one     *)
(*              action per call.                                           *)
(* SpecArea, SpecReach : area alone and reach alone, from any queue and   *)
(*              any excluded set.                                          *)
(* SpecCrawl  : the draft depth-first crawler (core.py) as a function of   *)
(*              the coordinate graph, the guard, the direction, the depth. *)
(* SpecSwitch : the draft edge_switch (topology_search.py), one action per *)
(*              topology of the list it sweeps.                            *)
(***************************************************************************)
EXTENDS Integers, Sequences, FiniteSets, TLC

\* ------------------------------------------------------------------ bounds

\* Number of coordinates of the implicit graph the engine is run on.
NumCoords == 3
\* Largest number of arcs (child relations) of that graph.
MaxArcs == 2
\* Largest depth passed to a traversal primitive (the smallest is -1).
MaxDepth == 2
\* Largest number of elements of a set handed to splits.
MaxElems == 5
\* Largest number of edges of the generated multigraphs on three nodes.
MaxEdges == 2
\* Largest number of switches plus splits of a coordinate that is walked to.
MaxChanges == 2

\* Largest number of component guards of a composed guard.
MaxGuards == 2
\* Largest number of calls made of one composed guard.
MaxCalls == 2

\* Number of coordinates, largest number of arcs and largest depth of the
\* graphs the draft crawler is run on.
CrawlCoords == 4
CrawlArcs == 4
CrawlDepth == 2

\* Number of nodes of the topologies handed to edge_switch.
MaxNodes == 4
\* Largest number of switchable edges of such a topology.
MaxSwitchable == 2
\* Largest number of successive calls of edge_switch on its own result.
MaxSweeps == 2

\* ------------------------------------------------------ program constants

\* min_deg: int = 2
DefaultMinDeg == 2
\* max_splits: int = 2
DefaultMaxSplits == 2
\* k: int = 2
DefaultK == 2

VARIABLES
    \* --- traversal engine ---
    arcs,       \* the implicit graph: <<c, c2>> means c2 is produced by c.children()
    guardOK,    \* the guard: guard(c) is TRUE iff c \in guardOK
    fn,         \* the generator called: "none" | "explore" | "area" | "reach" | "crawler"
    pc,         \* "idle" | "loop" (the generator is suspended in its loop) | "done"
    coords,     \* explore: the start coordinate
    direction,  \* "adjacent" | "children" | "parents"
    depth,      \* the depth argument
    d,          \* rounds completed (explore: loop index; area/reach: recursion level)
    seen,       \* explore: seen; area/reach: exclude
    queue,      \* the current frontier, in iteration order
    out,        \* the sequence of coordinates yielded so far
    raised,     \* TRUE iff the call raised an exception
    iter,       \* the order in which the sets of this run iterate: "asc" | "desc"
    calls,      \* the number of direction calls and guard calls made so far
    evals,      \* the coordinates the guard was called on so far, in order
    q_arg,      \* area/reach: the queue argument of the call, as a set
    ex_arg,     \* area/reach: the exclude argument of the call
    \* --- topology: the arguments of the space builders ---
    a_list,     \* adjacency list: node -> neighbour -> set of elements
    n_list,     \* node -> the elements listed at the node
    minDeg,     \* the min_deg argument
    maxSplits,  \* the max_splits argument (an int)
    e_exclude,  \* make_e_space's exclude argument
    \* --- calls of splits, node_splits and the guard builders ---
    sp_pc,      \* "idle" | "returned" | "raised"
    sp_call,    \* the call made: a record, or <<>> before the call
    sp_out,     \* the sequence the call yields
    \* --- topology coordinates ---
    tpc,        \* "idle" | "args" | "error" (ValueError) | "walk" | "called"
                \*   | "raised" (a move of the walk raised)
    variant,    \* the mixins behind EC, EP, NC of make_root: "simple" | "coupled"
    e_space,    \* the ESpace of the root
    n_space,    \* the NSpace of the root: node -> set of (node, cells)
    coord,      \* the current coordinate: <<e_coord, n_coord>>
    descended,  \* TRUE iff coord was reached from the root by child moves only
    \* --- the composed guard ---
    guard_funcs,  \* GuardWrapper.guard_funcs: the component guards, in order
    gw_kind,      \* what guard_funcs is: "tuple" (iterated anew by every for)
                  \*   | "iterator" (a generator: every element is given once)
    gw_pos,       \* the number of elements an iterator has given so far
    gw_n,         \* the number of calls of the wrapper so far
    gw_last,      \* the last call: [arg, invoked, ret], or <<>> before a call
    \* --- the draft search by edge switches (topology_search.py) ---
    topology_list,      \* the list edge_switch is called on and extends
    new_topology_list,  \* edge_switch's local list of the topologies it keeps
    sw_pc,              \* "idle" | "loop" (edge_switch is in its for loop)
    sw_i,               \* the position of the for loop in topology_list
    sw_k,               \* the k argument
    sw_n                \* the number of calls of edge_switch so far

engineVars == <<arcs, guardOK, fn, pc, coords, direction, depth, d, seen, queue, out, raised,
                iter, calls, evals, q_arg, ex_arg>>
cfgVars == <<a_list, n_list, minDeg, maxSplits, e_exclude>>
splitVars == <<sp_pc, sp_call, sp_out>>
topoVars == <<tpc, variant, e_space, n_space, coord, descended>>
wrapVars == <<guard_funcs, gw_kind, gw_pos, gw_n, gw_last>>
switchVars == <<topology_list, new_topology_list, sw_pc, sw_i, sw_k, sw_n>>
vars == <<engineVars, cfgVars, splitVars, topoVars, wrapVars, switchVars>>

\* ------------------------------------------------------- sequence helpers

Range(s) == {s[i] : i \in DOMAIN s}

RECURSIVE SetAsSeq(_)
\* Iteration order of a Python set of small non-negative ints: ascending.
SetAsSeq(S) ==
    IF S = {} THEN <<>>
    ELSE LET m == CHOOSE x \in S : \A y \in S : x <= y
         IN  <<m>> \o SetAsSeq(S \ {m})

Reverse(s) == [i \in 1 .. Len(s) |-> s[Len(s) + 1 - i]]

\* The iteration orders of a set that are told apart.
IterOrders == {"asc", "desc"}

\* Iteration over a Python set: the order follows the hashes of the elements
\* and the way the set was built, not its value.  Two orders are modelled.
IterSeq(ord, S) == IF ord = "desc" THEN Reverse(SetAsSeq(S)) ELSE SetAsSeq(S)

NoDup(s) == \A i, j \in DOMAIN s : i # j => s[i] # s[j]

\* ---------------------------------------------- the coordinate contract

Coords == 0 .. (NumCoords - 1)

Directions == {"adjacent", "children", "parents"}

\* coords.children() in a run whose sets iterate in the order ord: the
\* targets of the arcs leaving c.
coordChildrenIn(ord, c) == IterSeq(ord, {a[2] : a \in {b \in arcs : b[1] = c}})

\* coords.parents(): the sources of the arcs entering c.
coordParentsIn(ord, c) == IterSeq(ord, {a[1] : a \in {b \in arcs : b[2] = c}})

\* DGCoords.adjacent: chain(self.children(), self.parents()).
coordAdjacentIn(ord, c) == coordChildrenIn(ord, c) \o coordParentsIn(ord, c)

\* The same in the current run.
coordChildren(c) == coordChildrenIn(iter, c)
coordParents(c) == coordParentsIn(iter, c)
coordAdjacent(c) == coordAdjacentIn(iter, c)

\* The guard callable handed to the engine.
guard(c) == c \in guardOK

\* ------------------------------------------------------ core/itertools.py

\* Mutant of filter: the guard is not applied.
filter_NoGuard(xs) == xs

\* filter(guard, xs)
filter(xs) == SelectSeq(xs, guard)

\* adjacent / children / parents of core/core.py: filter(guard, coords.<dir>()).
adjacent(c) == filter(coordAdjacent(c))
children(c) == filter(coordChildren(c))
parents(c) == filter(coordParents(c))

\* step = lambda c: direction(c, guard)
step(dir, c) ==
    CASE dir = "adjacent" -> adjacent(c)
      [] dir = "children" -> children(c)
      [] dir = "parents"  -> parents(c)

RECURSIVE chainmap(_, _)
\* chain.from_iterable(map(f, xs)) with f = step(dir, .)
chainmap(dir, xs) ==
    IF xs = <<>> THEN <<>>
    ELSE step(dir, Head(xs)) \o chainmap(dir, Tail(xs))

\* The coordinates coords.<dir>() yields from c, before the guard.
candidates(dir, c) ==
    CASE dir = "adjacent" -> coordAdjacent(c)
      [] dir = "children" -> coordChildren(c)
      [] dir = "parents"  -> coordParents(c)

RECURSIVE callsOf(_, _)
\* The calls chainmap(step, xs) makes when it is consumed: per element of xs
\* one call of the direction and one guard call per candidate.
callsOf(dir, xs) ==
    IF xs = <<>> THEN 0
    ELSE 1 + Len(candidates(dir, Head(xs))) + callsOf(dir, Tail(xs))

RECURSIVE guardCalls(_, _)
\* The coordinates filter(guard, ...) calls the guard on when chainmap(step, xs)
\* is consumed: every candidate of every element of xs, in order.
guardCalls(dir, xs) ==
    IF xs = <<>> THEN <<>>
    ELSE candidates(dir, Head(xs)) \o guardCalls(dir, Tail(xs))

\* Mutant of uniqueFrom: the yielded element is not added to the local `seen`.
uniqueFrom_NoAdd(xs, exclude, sn) == SelectSeq(xs, LAMBDA x : x \notin exclude)

RECURSIVE uniqueFrom(_, _, _)
\* The loop of unique: sn is its local set `seen`.
\* (The loop over xs is unfolded by halves: the second half runs with the
\* elements that the first half yielded added to `seen`.)
uniqueFrom(xs, exclude, sn) ==
    IF xs = <<>> THEN <<>>
    ELSE IF Len(xs) = 1
         THEN IF (xs[1] \notin exclude) /\ (xs[1] \notin sn) THEN xs ELSE <<>>
         ELSE LET h == Len(xs) \div 2
                  first == uniqueFrom(SubSeq(xs, 1, h), exclude, sn)
              IN  first \o uniqueFrom(SubSeq(xs, h + 1, Len(xs)), exclude,
                                      sn \cup Range(first))

\* Mutant of unique: the exclude set is not consulted.
unique_NoExclude(xs, exclude) == uniqueFrom(xs, {}, {})

\* unique(xs, exclude): the yielded sequence; its return value is the set of
\* the yielded elements.
unique(xs, exclude) == uniqueFrom(xs, exclude, {})

\* ------------------------------------ core/core.py, explore as a function

\* step in a run whose sets iterate in the order ord.
stepIn(ord, dir, c) ==
    CASE dir = "adjacent" -> filter(coordAdjacentIn(ord, c))
      [] dir = "children" -> filter(coordChildrenIn(ord, c))
      [] dir = "parents"  -> filter(coordParentsIn(ord, c))

RECURSIVE chainmapIn(_, _, _)
chainmapIn(ord, dir, xs) ==
    IF xs = <<>> THEN <<>>
    ELSE stepIn(ord, dir, Head(xs)) \o chainmapIn(ord, dir, Tail(xs))

RECURSIVE exploreRounds(_, _, _, _, _)
\* What k more rounds of explore's loop emit from the frontier q.
exploreRounds(ord, dir, q, sn, k) ==
    IF k <= 0 THEN <<>>
    ELSE LET sn2 == sn \cup Range(q)
             new == unique(chainmapIn(ord, dir, q), sn2)
         IN  new \o exploreRounds(ord, dir, IterSeq(ord, Range(new)), sn2, k - 1)

\* list(explore(c, dir, dep, guard)) in a run whose sets iterate in order ord.
exploreIn(ord, c, dir, dep) == exploreRounds(ord, dir, <<c>>, {c}, dep)

\* ------------------------------------------------- core.py (the draft)

\* crawler(coords, enumerator, depth, guard): the inner generator recursor
\* and its loop over enumerator(coords, guard), in a run whose sets iterate
\* in the order ord.  Each returns <<the coordinates yielded, seen afterwards>>.
RECURSIVE recursor(_, _, _, _, _)
RECURSIVE recursorLoop(_, _, _, _, _)
recursor(ord, dir, c, dep, sn) ==
    IF dep = 0
    THEN IF c \notin sn THEN <<<<c>>, sn \cup {c}>> ELSE <<<<>>, sn>>
    ELSE recursorLoop(ord, dir, stepIn(ord, dir, c), dep, sn)

\* for new_coords in enumerator(coords, guard): if new_coords not in seen:
\*     seen.add(new_coords); yield new_coords; yield from recursor(new_coords, depth-1)
recursorLoop(ord, dir, xs, dep, sn) ==
    IF xs = <<>> THEN <<<<>>, sn>>
    ELSE IF Head(xs) \in sn THEN recursorLoop(ord, dir, Tail(xs), dep, sn)
    ELSE LET below == recursor(ord, dir, Head(xs), dep - 1, sn \cup {Head(xs)})
             rest == recursorLoop(ord, dir, Tail(xs), dep, below[2])
         IN  <<(<<Head(xs)>> \o below[1]) \o rest[1], rest[2]>>

\* crawler(coords, enumerator, depth, guard) with depth >= 0: seen = {coords}.
crawler(ord, c, dir, dep) == recursor(ord, dir, c, dep, {c})

\* ------------------------------------------------------ topology/graphs.py

\* e_list(a_list): the unique elements in the adjacency list.
e_list(al) == UNION {UNION {al[n][nb] : nb \in DOMAIN al[n]} : n \in DOMAIN al}

\* ne_connections(a_list, n): the elements connected to node n.
ne_connections(al, n) == UNION {al[n][nb] : nb \in DOMAIN al[n]}

\* en_connections(a_list, e): the nodes connected to element e.
en_connections(al, e) == {n \in DOMAIN al : e \in ne_connections(al, n)}

\* en_connection_list(a_list)
en_connection_list(al) == [e \in e_list(al) |-> en_connections(al, e)]

\* ne_connection_list(a_list)
ne_connection_list(al) == [n \in DOMAIN al |-> ne_connections(al, n)]

\* degree(a_list, n)
degree(al, n) == Cardinality(ne_connections(al, n))

\* degree_list(a_list)
degree_list(al) == [n \in DOMAIN al |-> degree(al, n)]

\* -------------------------------------- core/itertools.py, combinatorics

RECURSIVE SeqOf(_)
\* Iteration over a set whose order the code does not fix: some fixed order.
SeqOf(S) ==
    IF S = {} THEN <<>>
    ELSE LET x == CHOOSE y \in S : TRUE
         IN  <<x>> \o SeqOf(S \ {x})

RECURSIVE FlattenRange(_, _, _)
\* The concatenation of ss[lo], ..., ss[hi].
FlattenRange(ss, lo, hi) ==
    IF lo > hi THEN <<>>
    ELSE IF lo = hi THEN <<>> \o ss[lo]
         ELSE LET h == (lo + hi) \div 2
              IN  FlattenRange(ss, lo, h) \o FlattenRange(ss, h + 1, hi)

\* chain.from_iterable of a sequence of sequences.
Flatten(ss) == FlattenRange(ss, 1, Cardinality(DOMAIN ss))

\* combinations(xs, n) for n in range(lo, hi + 1), as one sequence.
combinationsOfSizes(xs, lo, hi) ==
    Flatten([i \in 1 .. (IF hi >= lo THEN hi - lo + 1 ELSE 0) |->
                SeqOf({c \in SUBSET xs : Cardinality(c) = lo + i - 1})])

RECURSIVE splits(_, _, _)
\* splits(xs, min_size, max_splits): the ordered splits, as tuples of cells.
splits(xs, min_size, max_splits) ==
    IF (Cardinality(xs) >= 2 * min_size) /\ (max_splits > 1)
    THEN LET yss == combinationsOfSizes(xs, min_size, Cardinality(xs) - min_size)
         IN  Flatten([i \in DOMAIN yss |->
                 LET sub == splits(xs \ yss[i], min_size, max_splits - 1)
                 IN  [j \in DOMAIN sub |-> <<yss[i]>> \o sub[j]]])
    ELSE << <<xs>> >>

\* supplement(xss, y): all ways to add y to one cell of xss.
supplement(xss, y) == [n \in DOMAIN xss |-> [xss EXCEPT ![n] = @ \cup {y}]]

RECURSIVE distribute(_, _)
\* distribute(ys, xsss): all distributions of the elements ys over every xss.
distribute(ys, xsss) ==
    IF ys = <<>> THEN xsss
    ELSE distribute(Tail(ys), Flatten([i \in DOMAIN xsss |-> supplement(xsss[i], Head(ys))]))

\* The four-argument splits that node_splits calls (spaces.py:86); core/itertools.py
\* holds the three-argument one only.  The elements of `fixed` are distributed
\* over the cells of every split of xs in every possible way.
splitsFixed(xs, min_size, max_splits, fixed) ==
    distribute(SeqOf(fixed), splits(xs, min_size, max_splits))

\* ------------------------------------------------------ topology/spaces.py

\* below_min = tuple(n for n in d if d[n] < min_deg)
below_min(al, m) == {n \in DOMAIN al : degree_list(al)[n] < m}

\* Mutant of make_e_space: the edges at a node of degree min_deg are kept.
make_e_space_KeepAtMin(el, al, m, excl) == {e \in el : e \notin excl}

\* make_e_space(e_list, a_list, min_deg, exclude), when it does not raise.
make_e_space(el, al, m, excl) ==
    LET dl == degree_list(al)
        ne == ne_connection_list(al)
        at_min == UNION {ne[n] : n \in {k \in DOMAIN ne : dl[k] = m}}
    IN  {e \in el : e \notin (excl \cup at_min)}

\* Mutant of node_splits: the results are not passed through unique.
node_splits_NoUnique(node, el, al, m, k) ==
    LET e_connect == ne_connections(al, node)
        full_splits == distribute(SeqOf(el \ e_connect),
                           splitsFixed(el \cap e_connect, m, k, e_connect \ el))
    IN  [i \in DOMAIN full_splits |-> <<node, Range(full_splits[i])>>]

\* node_splits(node, e_list, a_list, min_deg, max_splits) with ordered = False,
\* when it does not raise: the sequence of (node, frozenset of cells).
node_splits(node, el, al, m, k) ==
    LET e_connect == ne_connections(al, node)
        ec_flex == el \cap e_connect
        ec_fix == e_connect \ el
        e_other == el \ e_connect
        base_splits == splitsFixed(ec_flex, m, k, ec_fix)
        full_splits == distribute(SeqOf(e_other), base_splits)
    IN  unique([i \in DOMAIN full_splits |-> <<node, Range(full_splits[i])>>], {})

\* node_splits raises ValueError when degree(a_list, node) < min_deg.
node_splits_raises(node, al, m) == degree(al, node) < m

\* make_n_space(n_list, a_list, min_deg, max_splits) with an int max_splits,
\* when it does not raise.
make_n_space(nl, al, m, k) ==
    [n \in DOMAIN nl |-> Range(node_splits(n, nl[n], al, m, k))]

\* make_root(es, ns): Coords([ECoord(), NCoord()]).  A coordinate is the pair
\* <<e_coord, n_coord>>; an NCoord is the set of its values (node, cells), one
\* per split node.
make_root == <<{}, {}>>

\* ------------------------------------------------------ topology/coords.py

\* `n in n_coord` for an NCoord.
HasNode(nc, n) == \E s \in nc : s[1] = n

\* NCoord(n_coord | {split[0]: split})
WithSplit(nc, split) == {s \in nc : s[1] # split[1]} \cup {split}

\* TopoTuple.factory(e_coords, n_coords): the cartesian product, in order.
factory(ecs, ncs) ==
    Flatten([i \in DOMAIN ecs |-> [j \in DOMAIN ncs |-> <<ecs[i], ncs[j]>>]])

\* split_filter(split, switches)
split_filter(split, switches) == <<split[1], {es \ switches : es \in split[2]}>>

\* n_filter(n_coord, es)
n_filter(nc, es) == {split_filter(s, es) : s \in nc}

\* n_branch(n_coord, n_space, e)
n_branch(nc, ns, e) ==
    LET nodes == SeqOf({s[1] : s \in nc})
    IN  Flatten([i \in DOMAIN nodes |->
            LET cands == SeqOf({split \in ns[nodes[i]] : e \in UNION split[2]})
            IN  [j \in DOMAIN cands |-> {cands[j]}]])

\* Mutant of ECSimple.e_children: any edge of the net may be switched.
ECSimple_e_children_AnyEdge(c) ==
    LET unswitched == SeqOf(e_list(a_list) \ c[1])
        e_coords == [i \in DOMAIN unswitched |-> c[1] \cup {unswitched[i]}]
    IN  factory(e_coords, <<c[2]>>)

\* ECSimple.e_children
ECSimple_e_children(c) ==
    LET unswitched == SeqOf(e_space \ c[1])
        e_coords == [i \in DOMAIN unswitched |-> c[1] \cup {unswitched[i]}]
    IN  factory(e_coords, <<c[2]>>)

\* Mutant of EPSimple.e_parents: no switch is taken back.
EPSimple_e_parents_None(c) == <<>>

\* EPSimple.e_parents
EPSimple_e_parents(c) ==
    LET switches == SeqOf(c[1])
        e_coords == [i \in DOMAIN switches |-> c[1] \ {switches[i]}]
    IN  factory(e_coords, <<c[2]>>)

\* Mutant of NCSimple.n_children: the nodes that are split already are not
\* left out.
NCSimple_n_children_AllNodes(c) ==
    LET unsplit == SeqOf(DOMAIN n_space)
        splts == Flatten([i \in DOMAIN unsplit |-> SeqOf(n_space[unsplit[i]])])
        n_coords == [i \in DOMAIN splts |-> WithSplit(c[2], splts[i])]
    IN  factory(<<c[1]>>, n_coords)

\* NCSimple.n_children
NCSimple_n_children(c) ==
    LET unsplit == SeqOf({n \in DOMAIN n_space : ~HasNode(c[2], n)})
        splts == Flatten([i \in DOMAIN unsplit |-> SeqOf(n_space[unsplit[i]])])
        n_coords == [i \in DOMAIN splts |-> WithSplit(c[2], splts[i])]
    IN  factory(<<c[1]>>, n_coords)

\* ECCoupled.e_children
ECCoupled_e_children(c) ==
    LET unswitched == SeqOf(e_space \ c[1])
        e_coords == [i \in DOMAIN unswitched |-> c[1] \cup {unswitched[i]}]
    IN  Flatten([i \in DOMAIN e_coords |->
            factory(<<e_coords[i]>>, <<n_filter(c[2], e_coords[i])>>)])

\* EPCoupled.e_parents raises when its result is iterated: en yields one
\* zip object per switched edge and f subscripts it (TypeError).
EPCoupled_e_parents_raises(c) == c[1] # {}

\* EPCoupled.e_parents, when it does not raise: chainmap over no switch.
EPCoupled_e_parents(c) == <<>>

\* NCCoupled.n_children
NCCoupled_n_children(c) ==
    LET unsplit == SeqOf({n \in DOMAIN n_space : ~HasNode(c[2], n)})
        splts == Flatten([i \in DOMAIN unsplit |->
                     LET ss == SeqOf(n_space[unsplit[i]])
                     IN  [j \in DOMAIN ss |-> split_filter(ss[j], c[1])]])
        n_coords == [i \in DOMAIN splts |-> WithSplit(c[2], splts[i])]
    IN  factory(<<c[1]>>, n_coords)

\* Mutant of NP.n_parents: every parent drops all the splits.
NP_n_parents_DropAll(c) ==
    LET nodes == SeqOf({s[1] : s \in c[2]})
    IN  factory(<<c[1]>>, [i \in DOMAIN nodes |-> {}])

\* NP.n_parents
NP_n_parents(c) ==
    LET nodes == SeqOf({s[1] : s \in c[2]})
        n_coords == [i \in DOMAIN nodes |-> {s \in c[2] : s[1] # nodes[i]}]
    IN  factory(<<c[1]>>, n_coords)

\* class Coords(TopoTuple, EC, EP, NC, NP) of make_root: EC, EP and NC are the
\* simple or the coupled mixins.
e_children(c) == IF variant = "coupled" THEN ECCoupled_e_children(c) ELSE ECSimple_e_children(c)
e_parents(c) == IF variant = "coupled" THEN EPCoupled_e_parents(c) ELSE EPSimple_e_parents(c)
e_parents_raises(c) == variant = "coupled" /\ EPCoupled_e_parents_raises(c)
n_children(c) == IF variant = "coupled" THEN NCCoupled_n_children(c) ELSE NCSimple_n_children(c)
n_parents(c) == NP_n_parents(c)

\* ------------------------------------------------------- topology/abc.py

\* TopoCoords.children: chain(self.e_children(), self.n_children())
TopoCoords_children(c) == e_children(c) \o n_children(c)

\* TopoCoords.parents: chain(self.e_parents(), self.n_parents())
TopoCoords_parents(c) == e_parents(c) \o n_parents(c)

\* --------------------------------------------------------- api/networkx.py

\* The node of an nx.Graph: <<n>> for the unsplit node n, <<n, i>> for the
\* sub-node (n, i) of a split node.
RECURSIVE Reachable(_, _)
\* The nodes joined to a node of S by a path of edges.
Reachable(S, edges) ==
    LET T == S \cup UNION {e \in edges : e \cap S # {}}
    IN  IF T = S THEN S ELSE Reachable(T, edges)

\* nx.is_connected(g) for a graph with at least one node.
is_connected(g) == \E n \in g[1] : Reachable({n}, g[2]) = g[1]

\* Mutant of is_k_edge_connected: connectivity alone.
is_k_edge_connected_NoCut(g, k) == (Cardinality(g[1]) >= k + 1) /\ is_connected(g)

\* nxc.is_k_edge_connected(g, k), k >= 1: no removal of fewer than k edges
\* disconnects g (False at once with fewer than k + 1 nodes or a degree < k).
is_k_edge_connected(g, k) ==
    IF Cardinality(g[1]) < k + 1 THEN FALSE
    ELSE IF \E n \in g[1] : Cardinality({e \in g[2] : n \in e /\ e # {n}}) < k THEN FALSE
    ELSE \A F \in {X \in SUBSET g[2] : Cardinality(X) < k} :
             is_connected(<<g[1], g[2] \ F>>)

\* enumerate(n_coord[n][1]): the cells of the split node n, in order.
CellsOf(nc, n) == SeqOf((CHOOSE s \in nc : s[1] = n)[2])

\* en_sub_list[e]: the sub-nodes whose cell holds e, in the order of a_list.
en_sub_list(al, nc, e) ==
    LET ns == SetAsSeq({n \in DOMAIN al : HasNode(nc, n)})
    IN  Flatten([j \in DOMAIN ns |->
            LET cells == CellsOf(nc, ns[j])
                hits == SetAsSeq({i \in DOMAIN cells : e \in cells[i]})
            IN  [h \in DOMAIN hits |-> <<ns[j], hits[h] - 1>>]])

\* make_graph raises: `t, f = en_list[e]` needs exactly two nodes (ValueError)
\* and en_sub_list[e] one entry per split end of e (KeyError, IndexError).
make_graph_raises(al, topo, enl) ==
    \E e \in DOMAIN enl \ topo[1] :
        \/ Cardinality(enl[e]) # 2
        \/ Len(en_sub_list(al, topo[2], e))
               < Cardinality({n \in enl[e] : HasNode(topo[2], n)})

\* make_graph(a_list, topo, en_list, store_edge_data=False), when it does not
\* raise: <<nodes, edges>> of the nx.Graph.  An nx.Graph holds one edge per
\* pair of nodes: add_edge on a pair that is joined already adds nothing.
make_graph(al, topo, enl) ==
    LET e_coord == topo[1]
        n_coord == topo[2]
        nodes == {<<n>> : n \in {x \in DOMAIN al : ~HasNode(n_coord, x)}}
                 \cup UNION {{<<n, i - 1>> : i \in DOMAIN CellsOf(n_coord, n)} :
                                n \in {x \in DOMAIN al : HasNode(n_coord, x)}}
        ends(e) ==
            LET tf == SetAsSeq(enl[e])
                t == tf[1]
                f == tf[2]
                sub == en_sub_list(al, n_coord, e)
            IN  CASE ~HasNode(n_coord, t) /\ ~HasNode(n_coord, f) -> {<<t>>, <<f>>}
                  [] ~HasNode(n_coord, t) /\ HasNode(n_coord, f) -> {<<t>>, sub[1]}
                  [] HasNode(n_coord, t) /\ ~HasNode(n_coord, f) -> {sub[1], <<f>>}
                  [] HasNode(n_coord, t) /\ HasNode(n_coord, f) -> {sub[1], sub[2]}
    IN  <<nodes \cup UNION {ends(e) : e \in DOMAIN enl \ e_coord},
          {ends(e) : e \in DOMAIN enl \ e_coord}>>

\* check_k_edge_connected(coords, a_list, en_list, k), when it does not raise.
check_k_edge_connected(c, al, enl, k) == is_k_edge_connected(make_graph(al, c, enl), k)

\* k_edge_guard(a_list, k) raises ValueError(f'not {k}-edge connected').
k_edge_guard_raises(al, k) ==
    ~is_k_edge_connected(make_graph(al, make_root, en_connection_list(al)), k)

\* The closure k_edge_guard(a_list, k) returns, applied to coords.
k_edge_guard(al, k, c) == check_k_edge_connected(c, al, en_connection_list(al), k)

\* ------------------------------------------------------ topology/guards.py

\* graphs.sub_connections(n, en_list, coords): per cell of the split node n,
\* the elements that are edges of the net and are not switched.
sub_connections(n, enl, c) ==
    LET cells == CellsOf(c[2], n)
    IN  [i \in DOMAIN cells |-> {e \in cells[i] : e \in DOMAIN enl /\ e \notin c[1]}]

\* graphs.sub_nodes(n, coords): (n, i) for i in range(len(coords.n_coord[n])).
\* n_coord[n] is the pair (n, split), so its length is 2 whatever the split.
sub_nodes(n, c) == [i \in 1 .. 2 |-> <<n, i - 1>>]

\* graphs.en_from_ne(ne_list)
en_from_ne(ne) ==
    [e \in UNION {ne[n] : n \in DOMAIN ne} |-> {n \in DOMAIN ne : e \in ne[n]}]

\* graphs.topology_a_list(a_list, coords).  A node of the result is <<n>> for
\* the unsplit node n and <<n, i>> for the sub-node (n, i).
topology_a_list(al, c) ==
    LET ne == ne_connection_list(al)
        en == en_connection_list(al)
        zipped(n) ==
            LET sn == sub_nodes(n, c)
                sc == sub_connections(n, en, c)
            IN  {<<sn[i], sc[i]>> : i \in DOMAIN sn \cap DOMAIN sc}
        splts == UNION {zipped(n) : n \in {x \in DOMAIN ne : HasNode(c[2], x)}}
        split_ne == [x \in {p[1] : p \in splts} |-> (CHOOSE p \in splts : p[1] = x)[2]]
        unsplit_ne == [x \in {<<n>> : n \in {y \in DOMAIN ne : ~HasNode(c[2], y)}} |-> ne[x[1]]]
        topo_ne == [x \in DOMAIN split_ne \cup DOMAIN unsplit_ne |->
                       IF x \in DOMAIN split_ne THEN split_ne[x] ELSE unsplit_ne[x]]
        topo_en == en_from_ne(topo_ne)
    IN  [n \in DOMAIN topo_ne |->
            [nb \in {x \in DOMAIN topo_ne : x # n /\ \E e \in topo_ne[n] : x \in topo_en[e]} |->
                {e \in topo_ne[n] : nb \in topo_en[e]}]]

RECURSIVE check_degree_edges(_, _, _, _)
\* check_degree, the loop over coords.e_coord: every switched edge takes one
\* from the degree of its ends; False at the first degree below min_deg.
check_degree_edges(es, dl, enl, m) ==
    IF es = <<>> THEN TRUE
    ELSE LET ds == [n \in enl[es[1]] |-> dl[n] - 1]
         IN  IF \E n \in DOMAIN ds : ds[n] < m THEN FALSE
             ELSE check_degree_edges(Tail(es),
                      [n \in DOMAIN dl |-> IF n \in DOMAIN ds THEN ds[n] ELSE dl[n]],
                      enl, m)

\* Mutant of check_degree: the cells of the split nodes are not looked at.
check_degree_NoCells(c, dl, enl, m) == check_degree_edges(SetAsSeq(c[1]), dl, enl, m)

\* check_degree(coords, d_list, en_list, min_deg), when it does not raise.
check_degree(c, dl, enl, m) ==
    /\ check_degree_edges(SetAsSeq(c[1]), dl, enl, m)
    /\ \A s \in c[2] :
           LET cs == sub_connections(s[1], enl, c)
           IN  \A i \in DOMAIN cs : Cardinality(cs[i]) >= m

\* check_degree raises: en_list[e] and d_list[n] are looked up by key.
check_degree_raises(c, dl, enl) ==
    \E e \in c[1] : e \notin DOMAIN enl \/ ~(enl[e] \subseteq DOMAIN dl)

\* degree_guard(a_list, min_deg) raises ValueError naming these nodes.
degree_guard_raises(al, m) == below_min(al, m) # {}

\* The closure degree_guard(a_list, min_deg) returns, applied to coords.
degree_guard(al, m, c) == check_degree(c, degree_list(al), en_connection_list(al), m)

RECURSIVE InvokedFrom(_, _, _)
\* all(func(coords) for func in ...): the components invoked from position
\* i on, in order, up to and with the first that returns False.
InvokedFrom(fs, i, c) ==
    IF i > Len(fs) THEN <<>>
    ELSE IF c \notin fs[i] THEN <<i>>
    ELSE <<i>> \o InvokedFrom(fs, i + 1, c)

\* GuardWrapper.__call__(coords): <<components invoked, value returned>>.
\* A tuple is iterated from its start; an iterator goes on where it stopped.
GuardWrapper_call(fs, kind, pos, c) ==
    LET inv == InvokedFrom(fs, (IF kind = "iterator" THEN pos ELSE 0) + 1, c)
    IN  <<inv, \A j \in 1 .. Len(inv) : c \in fs[inv[j]]>>

\* ------------------------------------------------------ topology_search.py

\* A Topology (an nx.Graph with attributes) is the record of its nodes, its
\* edges (sets of two nodes) and its dict switchable_edges: the keys, in
\* insertion order.

\* networkx is_locally_k_edge_connected(G, s, t, k), k >= 1 and s # t: no
\* removal of fewer than k edges of G disconnects s from t.
is_locally_k_edge_connected(g, s, t, k) ==
    \A F \in {X \in SUBSET g[2] : Cardinality(X) < k} : t \in Reachable({s}, g[2] \ F)

\* Mutant of check_k_edge_connectivity: every topology passes.
check_k_edge_connectivity_Always(topology, edge, k) == TRUE

\* check_k_edge_connectivity(topology, edge, k); edge is the pair of the ends.
check_k_edge_connectivity(topology, edge, k) ==
    IF is_locally_k_edge_connected(<<topology.nodes, topology.edges>>, edge[1], edge[2], k)
    THEN TRUE
    ELSE FALSE

\* Graph.remove_edge(u, v) on an edge of the graph.
remove_edge(topology, u, v) == [topology EXCEPT !.edges = @ \ {{u, v}}]

\* dict.popitem(): <<the key inserted last, the dict without it>>.
popitem(dct) == <<dct[Len(dct)], SubSeq(dct, 1, Len(dct) - 1)>>

\* ---------------------------------------------------- the inputs checked

\* The mixins behind EC, EP and NC.
Variants == {"simple", "coupled"}

\* The values of k: the default and its neighbours.
Ks == {DefaultK - 1, DefaultK, DefaultK + 1}

\* The values of min_deg and max_splits: the default and its neighbour.
MinDegs == {DefaultMinDeg - 1, DefaultMinDeg}
SplitLimits == {DefaultMaxSplits, DefaultMaxSplits + 1}

\* The adjacency list of the multigraph whose edge i joins the two nodes of
\* ends[i] (api/pandapower.infer_a_list builds it this way from a net).
AListOf(ends) ==
    LET nodes == UNION Range(ends)
    IN  [n \in nodes |->
            [nb \in {m \in nodes : \E i \in DOMAIN ends : ends[i] = {n, m} /\ m # n} |->
                {i \in DOMAIN ends : ends[i] = {n, nb}}]]

\* k12 edges between nodes 1 and 2, k13 between 1 and 3, k23 between 2 and 3.
MultiEnds(k12, k13, k23) ==
    [i \in 1 .. k12 |-> {1, 2}] \o [i \in 1 .. k13 |-> {1, 3}] \o [i \in 1 .. k23 |-> {2, 3}]

\* Scenario 1: the 4-cycle 1-2-3-4-1.
Cycle4 == AListOf(<<{1, 2}, {2, 3}, {3, 4}, {4, 1}>>)
\* Scenario 3: node 1 joined to four distinct neighbours.
Star4 == AListOf(<<{1, 2}, {1, 3}, {1, 4}, {1, 5}>>)
\* Scenario 2: two 4-cycles joined by two parallel edges between nodes 1 and 5
\* (built with min_deg = 2 only).
TwoCycles ==
    AListOf(<<{1, 2}, {2, 3}, {3, 4}, {4, 1}, {5, 6}, {6, 7}, {7, 8}, {8, 5}, {1, 5}, {1, 5}>>)

Graphs ==
    {AListOf(MultiEnds(k[1], k[2], k[3])) :
        k \in {t \in (0 .. MaxEdges) \X (0 .. MaxEdges) \X (0 .. MaxEdges) :
                  t[1] + t[2] + t[3] <= MaxEdges}}
    \cup {Cycle4, Star4, TwoCycles}

\* The n_list of a net (api/pandapower.infer_n_list): every node lists its
\* edges; optionally node 1 also lists the attached element 0 (a load).
NLists(al) ==
    { [n \in DOMAIN al |-> ne_connections(al, n)],
      [n \in DOMAIN al |-> ne_connections(al, n) \cup (IF n = 1 THEN {0} ELSE {})] }

\* The variables of the other specifications, while a specification does not
\* use them.
EngineUnused ==
    /\ arcs = {} /\ guardOK = {} /\ fn = "none" /\ pc = "idle" /\ coords = 0
    /\ direction = "children" /\ depth = 0 /\ d = 0 /\ seen = {} /\ queue = <<>>
    /\ out = <<>> /\ raised = FALSE /\ iter = "asc" /\ calls = 0 /\ evals = <<>>
    /\ q_arg = {} /\ ex_arg = {}

CfgUnused ==
    /\ a_list = <<>> /\ n_list = <<>> /\ minDeg = 0 /\ maxSplits = 0 /\ e_exclude = {}

SplitUnused ==
    /\ sp_pc = "idle" /\ sp_call = <<>> /\ sp_out = <<>>

TopoUnused ==
    /\ tpc = "idle" /\ variant = "simple" /\ e_space = {} /\ n_space = <<>>
    /\ coord = make_root /\ descended = TRUE

WrapUnused ==
    /\ guard_funcs = <<>> /\ gw_kind = "tuple" /\ gw_pos = 0 /\ gw_n = 0
    /\ gw_last = <<>>

SwitchUnused ==
    /\ topology_list = <<>> /\ new_topology_list = <<>> /\ sw_pc = "idle"
    /\ sw_i = 0 /\ sw_k = 0 /\ sw_n = 0

\* ---------------------------------------------------------- core/core.py

Init ==
    /\ arcs \in {A \in SUBSET (Coords \X Coords) : Cardinality(A) <= MaxArcs}
    /\ guardOK \in SUBSET Coords
    /\ fn = "none"
    /\ pc = "idle"
    /\ coords = 0
    /\ direction = "children"
    /\ depth = 0
    /\ d = 0
    /\ seen = {}
    /\ queue = <<>>
    /\ out = <<>>
    /\ raised = FALSE
    /\ iter = "asc"
    /\ calls = 0
    /\ evals = <<>>
    /\ q_arg = {}
    /\ ex_arg = {}
    /\ WrapUnused
    /\ SwitchUnused
    /\ CfgUnused
    /\ SplitUnused
    /\ TopoUnused

\* explore(coords, direction, depth, guard): seen = {coords}; queue = {coords}.
\* neighborhood / descendants / ancestors are explore with direction
\* adjacent / children / parents.
CallExplore ==
    /\ pc = "idle"
    /\ \E c \in Coords, dir \in Directions, dep \in (-1) .. MaxDepth :
          /\ coords' = c
          /\ direction' = dir
          /\ depth' = dep
          /\ seen' = {c}
          /\ queue' = <<c>>
    /\ fn' = "explore"
    /\ pc' = "loop"
    /\ d' = 0
    /\ out' = <<>>
    /\ iter' \in IterOrders
    /\ calls' = 0
    /\ evals' = <<>>
    /\ UNCHANGED <<arcs, guardOK, q_arg, ex_arg, raised, cfgVars, wrapVars, switchVars, splitVars, topoVars>>

\* Mutant of the loop of explore: the round is not counted.
ExploreRound_NotCounted ==
    /\ fn = "explore"
    /\ pc = "loop"
    /\ d < depth
    /\ d' = d
    /\ seen' = seen \cup Range(queue)
    /\ out' = out \o unique(chainmap(direction, queue), seen')
    /\ queue' = IterSeq(iter, {out'[i] : i \in (Len(out) + 1) .. Len(out')})
    /\ calls' = calls + callsOf(direction, queue)
    /\ evals' = evals \o guardCalls(direction, queue)
    /\ UNCHANGED <<arcs, guardOK, q_arg, ex_arg, fn, pc, coords, direction, depth, raised, iter, cfgVars, wrapVars, switchVars, splitVars, topoVars>>

\* One iteration of `for d in range(depth)`:
\*   seen = seen | queue; queue = yield from unique(chainmap(step, queue), seen)
\* The new queue is the set unique returns: the elements it yielded, which
\* are the ones this round appends to out.
ExploreRound ==
    /\ fn = "explore"
    /\ pc = "loop"
    /\ d < depth
    /\ d' = d + 1
    /\ seen' = seen \cup Range(queue)
    /\ out' = out \o unique(chainmap(direction, queue), seen')
    /\ queue' = IterSeq(iter, {out'[i] : i \in (Len(out) + 1) .. Len(out')})
    /\ calls' = calls + callsOf(direction, queue)
    /\ evals' = evals \o guardCalls(direction, queue)
    /\ UNCHANGED <<arcs, guardOK, q_arg, ex_arg, fn, pc, coords, direction, depth, raised, iter, cfgVars, wrapVars, switchVars, splitVars, topoVars>>

\* range(depth) is exhausted (at once when depth <= 0): the generator returns.
ExploreReturn ==
    /\ fn = "explore"
    /\ pc = "loop"
    /\ ~(d < depth)
    /\ pc' = "done"
    /\ UNCHANGED <<arcs, guardOK, q_arg, ex_arg, fn, coords, direction, depth, d, seen, queue, out, raised, iter, calls, evals, cfgVars, wrapVars, switchVars, splitVars, topoVars>>

\* area(queue, direction, depth, exclude, guard): queue is any set of
\* coordinates and exclude any set.
CallArea ==
    /\ pc = "idle"
    /\ iter' \in IterOrders
    /\ \E q \in SUBSET Coords, ex \in SUBSET Coords,
          dir \in Directions, dep \in (-1) .. MaxDepth :
          /\ q_arg' = q
          /\ ex_arg' = ex
          /\ direction' = dir
          /\ depth' = dep
          /\ seen' = ex
          /\ queue' = IterSeq(iter', q)
    /\ fn' = "area"
    /\ pc' = "loop"
    /\ d' = 0
    /\ out' = <<>>
    /\ calls' = 0
    /\ evals' = <<>>
    /\ UNCHANGED <<arcs, guardOK, coords, raised, cfgVars, wrapVars, switchVars, splitVars, topoVars>>

\* Mutant of area: the recursive call is given exclude, not exclude | qs.
AreaRound_KeepExclude ==
    /\ fn = "area"
    /\ pc = "loop"
    /\ depth - d > 0
    /\ LET new == unique(chainmap(direction, queue), seen)
       IN  /\ out' = out \o new
           /\ queue' = IterSeq(iter, Range(new))
           /\ seen' = seen
    /\ calls' = calls + callsOf(direction, queue)
    /\ evals' = evals \o guardCalls(direction, queue)
    /\ d' = d + 1
    /\ UNCHANGED <<arcs, guardOK, q_arg, ex_arg, fn, pc, coords, direction, depth, raised, iter, cfgVars, wrapVars, switchVars, splitVars, topoVars>>

\* One level of area's recursion (depth - d is the level's depth argument):
\*   cs = chainmap(..., queue); qs = yield from unique(cs, exclude)
\*   yield from area(qs, direction, depth-1, exclude | qs, guard)
AreaRound ==
    /\ fn = "area"
    /\ pc = "loop"
    /\ depth - d > 0
    /\ LET new == unique(chainmap(direction, queue), seen)
       IN  /\ out' = out \o new
           /\ queue' = IterSeq(iter, Range(new))
           /\ seen' = seen \cup Range(new)
    /\ calls' = calls + callsOf(direction, queue)
    /\ evals' = evals \o guardCalls(direction, queue)
    /\ d' = d + 1
    /\ UNCHANGED <<arcs, guardOK, q_arg, ex_arg, fn, pc, coords, direction, depth, raised, iter, cfgVars, wrapVars, switchVars, splitVars, topoVars>>

AreaReturn ==
    /\ fn = "area"
    /\ pc = "loop"
    /\ ~(depth - d > 0)
    /\ pc' = "done"
    /\ UNCHANGED <<arcs, guardOK, q_arg, ex_arg, fn, coords, direction, depth, d, seen, queue, out, raised, iter, calls, evals, cfgVars, wrapVars, switchVars, splitVars, topoVars>>

\* reach(queue, direction, depth, exclude, guard): queue is any set of
\* coordinates and exclude any set.
CallReach ==
    /\ pc = "idle"
    /\ iter' \in IterOrders
    /\ \E q \in SUBSET Coords, ex \in SUBSET Coords,
          dir \in Directions, dep \in (-1) .. MaxDepth :
          /\ q_arg' = q
          /\ ex_arg' = ex
          /\ direction' = dir
          /\ depth' = dep
          /\ seen' = ex
          /\ queue' = IterSeq(iter', q)
    /\ fn' = "reach"
    /\ pc' = "loop"
    /\ d' = 0
    /\ out' = <<>>
    /\ calls' = 0
    /\ evals' = <<>>
    /\ UNCHANGED <<arcs, guardOK, coords, raised, cfgVars, wrapVars, switchVars, splitVars, topoVars>>

\* Mutant of reach: the coordinates of a level that are not excluded are
\* yielded.
ReachRound_Yields ==
    /\ fn = "reach"
    /\ pc = "loop"
    /\ depth - d > 0
    /\ LET qs == Range(chainmap(direction, queue))
       IN  /\ queue' = IterSeq(iter, qs)
           /\ seen' = seen \cup qs
           /\ out' = out \o unique(chainmap(direction, queue), seen)
    /\ calls' = calls + callsOf(direction, queue)
    /\ evals' = evals \o guardCalls(direction, queue)
    /\ d' = d + 1
    /\ UNCHANGED <<arcs, guardOK, q_arg, ex_arg, fn, pc, coords, direction, depth, raised, iter, cfgVars, wrapVars, switchVars, splitVars, topoVars>>

\* One level of reach's recursion:
\*   qs = set(chainmap(..., queue)); yield from reach(qs, ..., depth-1, exclude | qs, guard)
ReachRound ==
    /\ fn = "reach"
    /\ pc = "loop"
    /\ depth - d > 0
    /\ LET qs == Range(chainmap(direction, queue))
       IN  /\ queue' = IterSeq(iter, qs)
           /\ seen' = seen \cup qs
    /\ calls' = calls + callsOf(direction, queue)
    /\ evals' = evals \o guardCalls(direction, queue)
    /\ d' = d + 1
    /\ UNCHANGED <<arcs, guardOK, q_arg, ex_arg, fn, pc, coords, direction, depth, out, raised, iter, cfgVars, wrapVars, switchVars, splitVars, topoVars>>

ReachReturn ==
    /\ fn = "reach"
    /\ pc = "loop"
    /\ ~(depth - d > 0)
    /\ pc' = "done"
    /\ UNCHANGED <<arcs, guardOK, q_arg, ex_arg, fn, coords, direction, depth, d, seen, queue, out, raised, iter, calls, evals, cfgVars, wrapVars, switchVars, splitVars, topoVars>>

Next ==
    \/ CallExplore
    \/ ExploreRound
    \/ ExploreReturn
    \/ CallArea
    \/ AreaRound
    \/ AreaReturn
    \/ CallReach
    \/ ReachRound
    \/ ReachReturn

Spec == Init /\ [][Next]_vars

\* area alone.
NextArea ==
    \/ CallArea
    \/ AreaRound
    \/ AreaReturn

SpecArea == Init /\ [][NextArea]_vars

\* reach alone.
NextReach ==
    \/ CallReach
    \/ ReachRound
    \/ ReachReturn

SpecReach == Init /\ [][NextReach]_vars

\* explore (neighborhood, descendants, ancestors) alone.
NextExplore ==
    \/ CallExplore
    \/ ExploreRound
    \/ ExploreReturn

SpecExplore == Init /\ [][NextExplore]_vars

\* explore consumed to its end: a consumer that iterates the generator until
\* it is exhausted (a for loop, list(...)) resumes it after every yield.
SpecExploreFair ==
    Init /\ [][NextExplore]_vars /\ WF_vars(ExploreRound) /\ WF_vars(ExploreReturn)

\* ----------------------------- the draft crawler as a function: SpecCrawl

\* The coordinates of the graphs the crawler is run on.
CrawlSpace == 0 .. (CrawlCoords - 1)

InitCrawl ==
    /\ arcs \in {A \in SUBSET (CrawlSpace \X CrawlSpace) : Cardinality(A) <= CrawlArcs}
    /\ guardOK \in SUBSET CrawlSpace
    /\ fn = "none"
    /\ pc = "idle"
    /\ coords = 0
    /\ direction = "children"
    /\ depth = 0
    /\ d = 0
    /\ seen = {}
    /\ queue = <<>>
    /\ out = <<>>
    /\ raised = FALSE
    /\ iter = "asc"
    /\ calls = 0
    /\ evals = <<>>
    /\ q_arg = {}
    /\ ex_arg = {}
    /\ WrapUnused
    /\ SwitchUnused
    /\ CfgUnused
    /\ SplitUnused
    /\ TopoUnused

\* list(crawler(coords, enumerator, depth, guard)) with depth >= 0, from
\* coordinate 0 (the graphs range over every labelling): out is what the
\* generator yields when it is consumed, seen its set seen at the end.
CallCrawler ==
    /\ pc = "idle"
    /\ iter' \in IterOrders
    /\ \E dir \in Directions, dep \in 0 .. CrawlDepth :
          /\ direction' = dir
          /\ depth' = dep
          /\ LET r == crawler(iter', coords, dir, dep)
             IN  /\ out' = r[1]
                 /\ seen' = r[2]
    /\ fn' = "crawler"
    /\ pc' = "done"
    /\ UNCHANGED <<arcs, guardOK, q_arg, ex_arg, coords, d, queue, raised, calls, evals,
                   cfgVars, wrapVars, switchVars, splitVars, topoVars>>

\* crawler(coords, enumerator, depth, guard) with depth < 0:
\* ValueError('depth must be a positive integer') at the first next()
CrawlerRaises ==
    /\ pc = "idle"
    /\ \E dir \in Directions, dep \in {-1} :
          /\ direction' = dir
          /\ depth' = dep
    /\ raised' = TRUE
    /\ fn' = "crawler"
    /\ pc' = "done"
    /\ UNCHANGED <<arcs, guardOK, q_arg, ex_arg, coords, d, seen, queue, out, iter, calls,
                   evals, cfgVars, wrapVars, switchVars, splitVars, topoVars>>

NextCrawl ==
    \/ CallCrawler
    \/ CrawlerRaises

SpecCrawl == InitCrawl /\ [][NextCrawl]_vars

\* ------------------------------------- splits as a pure function: SpecSplits

InitSplits ==
    /\ sp_pc = "idle"
    /\ sp_call = <<>>
    /\ sp_out = <<>>
    /\ WrapUnused
    /\ SwitchUnused
    /\ EngineUnused
    /\ CfgUnused
    /\ TopoUnused

\* splits(xs, min_size, max_splits)
CallSplits ==
    /\ sp_pc = "idle"
    /\ \E xs \in SUBSET (1 .. MaxElems), m \in MinDegs, k \in SplitLimits :
          /\ sp_call' = [f |-> "splits", xs |-> xs, min_size |-> m, max_splits |-> k]
          /\ sp_out' = splits(xs, m, k)
    /\ sp_pc' = "returned"
    /\ UNCHANGED <<engineVars, cfgVars, wrapVars, switchVars, topoVars>>

NextSplits == CallSplits

SpecSplits == InitSplits /\ [][NextSplits]_vars


\* --------------------------------------------- the composed guard: SpecWrap

\* GuardWrapper(guard_funcs): a component guard is the set of coordinates it
\* is true on; guard_funcs is a tuple or a generator of them.
InitWrap ==
    /\ guard_funcs \in UNION {[1 .. n -> SUBSET Coords] : n \in 0 .. MaxGuards}
    /\ gw_kind \in {"tuple", "iterator"}
    /\ gw_pos = 0
    /\ gw_n = 0
    /\ gw_last = <<>>
    /\ SwitchUnused
    /\ EngineUnused
    /\ CfgUnused
    /\ SplitUnused
    /\ TopoUnused

\* wrapper(coords)
CallGuardWrapper ==
    /\ gw_n < MaxCalls
    /\ \E c \in Coords :
          LET r == GuardWrapper_call(guard_funcs, gw_kind, gw_pos, c)
          IN  /\ gw_last' = [arg |-> c, invoked |-> r[1], ret |-> r[2]]
              /\ gw_pos' = IF gw_kind = "iterator" THEN gw_pos + Len(r[1]) ELSE 0
    /\ gw_n' = gw_n + 1
    /\ UNCHANGED <<engineVars, cfgVars, splitVars, topoVars, switchVars, guard_funcs, gw_kind>>

NextWrap == CallGuardWrapper

SpecWrap == InitWrap /\ [][NextWrap]_vars

\* ------------------------------ the draft search by edge switches: SpecSwitch

SwitchNodes == 1 .. MaxNodes

\* The edges an nx.Graph on these nodes can hold (no loops).
SwitchEdges == {e \in SUBSET SwitchNodes : Cardinality(e) = 2}

\* The sequences of at most n distinct elements of S.
DistinctSeqs(S, n) == UNION {{q \in [1 .. m -> S] : NoDup(q)} : m \in 0 .. n}

\* FlexibleGrid.__init__: main_topology, a graph of the net with the
\* switchable lines as switchable_edges; topology_list holds it alone.
InitSwitch ==
    /\ \E E \in SUBSET SwitchEdges :
       \E sw \in DistinctSeqs(E, MaxSwitchable) :
           topology_list = <<[nodes |-> SwitchNodes, edges |-> E, switchable_edges |-> sw]>>
    /\ new_topology_list = <<>>
    /\ sw_pc = "idle"
    /\ sw_i = 0
    /\ sw_k \in Ks
    /\ sw_n = 0
    /\ WrapUnused
    /\ EngineUnused
    /\ CfgUnused
    /\ SplitUnused
    /\ TopoUnused

\* edge_switch(topology_list, k): new_topology_list = []
CallEdgeSwitch ==
    /\ sw_pc = "idle"
    /\ sw_n < MaxSweeps
    /\ new_topology_list' = <<>>
    /\ sw_i' = 1
    /\ sw_pc' = "loop"
    /\ sw_n' = sw_n + 1
    /\ UNCHANGED <<engineVars, cfgVars, splitVars, topoVars, wrapVars, topology_list, sw_k>>

\* for topology in topology_list: topology.switchable_edges is empty
EdgeSwitchSkip ==
    /\ sw_pc = "loop"
    /\ sw_i <= Len(topology_list)
    /\ topology_list[sw_i].switchable_edges = <<>>
    /\ sw_i' = sw_i + 1
    /\ UNCHANGED <<engineVars, cfgVars, splitVars, topoVars, wrapVars, topology_list,
                   new_topology_list, sw_pc, sw_k, sw_n>>

\* The topology of this iteration after popitem, the edge popped, and the
\* copy with the edge removed.
SwitchedCopy(i) ==
    LET popped == popitem(topology_list[i].switchable_edges)
        edge == SetAsSeq(popped[1])
        topology == [topology_list[i] EXCEPT !.switchable_edges = popped[2]]
    IN  [topology |-> topology,
         edge |-> edge,
         new_topology |-> remove_edge(topology, edge[1], edge[2])]

\* for topology in topology_list: an edge is popped, the copy without it
\* passes check_k_edge_connectivity and is appended to new_topology_list
EdgeSwitchKeep ==
    /\ sw_pc = "loop"
    /\ sw_i <= Len(topology_list)
    /\ topology_list[sw_i].switchable_edges # <<>>
    /\ LET sc == SwitchedCopy(sw_i)
       IN  /\ check_k_edge_connectivity(sc.new_topology, sc.edge, sw_k)
           /\ topology_list' = [topology_list EXCEPT ![sw_i] = sc.topology]
           /\ new_topology_list' = Append(new_topology_list, sc.new_topology)
    /\ sw_i' = sw_i + 1
    /\ UNCHANGED <<engineVars, cfgVars, splitVars, topoVars, wrapVars, sw_pc, sw_k, sw_n>>

\* for topology in topology_list: an edge is popped, the copy without it
\* fails check_k_edge_connectivity and is dropped
EdgeSwitchDrop ==
    /\ sw_pc = "loop"
    /\ sw_i <= Len(topology_list)
    /\ topology_list[sw_i].switchable_edges # <<>>
    /\ LET sc == SwitchedCopy(sw_i)
       IN  /\ ~check_k_edge_connectivity(sc.new_topology, sc.edge, sw_k)
           /\ topology_list' = [topology_list EXCEPT ![sw_i] = sc.topology]
    /\ sw_i' = sw_i + 1
    /\ UNCHANGED <<engineVars, cfgVars, splitVars, topoVars, wrapVars, new_topology_list,
                   sw_pc, sw_k, sw_n>>

\* topology_list.extend(new_topology_list); return topology_list
EdgeSwitchReturn ==
    /\ sw_pc = "loop"
    /\ sw_i > Len(topology_list)
    /\ topology_list' = topology_list \o new_topology_list
    /\ sw_pc' = "idle"
    /\ UNCHANGED <<engineVars, cfgVars, splitVars, topoVars, wrapVars, new_topology_list,
                   sw_i, sw_k, sw_n>>

NextSwitch ==
    \/ CallEdgeSwitch
    \/ EdgeSwitchSkip
    \/ EdgeSwitchKeep
    \/ EdgeSwitchDrop
    \/ EdgeSwitchReturn

SpecSwitch == InitSwitch /\ [][NextSwitch]_vars

\* ------------------------------- topology coordinates of a net: SpecTopo

InitTopo ==
    /\ a_list \in Graphs
    /\ n_list \in NLists(a_list)
    /\ minDeg \in (IF a_list = TwoCycles THEN {DefaultMinDeg} ELSE MinDegs)
    /\ maxSplits \in SplitLimits
    /\ e_exclude \in {{}, {1}}
    /\ variant \in Variants
    /\ tpc = "args"
    /\ e_space = {}
    /\ n_space = <<>>
    /\ coord = make_root
    /\ descended = TRUE
    /\ WrapUnused
    /\ SwitchUnused
    /\ EngineUnused
    /\ SplitUnused

\* node_splits(node, n_list[node], a_list, min_deg, max_splits), deg >= min_deg
CallNodeSplits ==
    /\ tpc = "args"
    /\ \E node \in DOMAIN a_list :
          /\ ~node_splits_raises(node, a_list, minDeg)
          /\ sp_call' = [f |-> "node_splits", node |-> node]
          /\ sp_out' = node_splits(node, n_list[node], a_list, minDeg, maxSplits)
    /\ sp_pc' = "returned"
    /\ tpc' = "called"
    /\ UNCHANGED <<engineVars, cfgVars, wrapVars, switchVars, variant, e_space, n_space, coord, descended>>

\* node_splits(...) at a node with deg < min_deg: ValueError
NodeSplitsRaises ==
    /\ tpc = "args"
    /\ \E node \in DOMAIN a_list :
          /\ node_splits_raises(node, a_list, minDeg)
          /\ sp_call' = [f |-> "node_splits", node |-> node]
    /\ sp_pc' = "raised"
    /\ tpc' = "called"
    /\ UNCHANGED <<engineVars, cfgVars, wrapVars, switchVars, sp_out, variant, e_space, n_space, coord, descended>>

\* degree_guard(a_list, min_deg) on a net that satisfies min_deg: the guard
\* is returned
CallDegreeGuard ==
    /\ tpc = "args"
    /\ \E m \in MinDegs :
          /\ ~degree_guard_raises(a_list, m)
          /\ sp_call' = [f |-> "degree_guard", min_deg |-> m]
    /\ sp_pc' = "returned"
    /\ tpc' = "called"
    /\ UNCHANGED <<engineVars, cfgVars, wrapVars, switchVars, sp_out, variant, e_space, n_space, coord, descended>>

\* degree_guard(a_list, min_deg): ValueError('minimum degree not satisfied
\* at {below_min}'); sp_out holds the nodes the message names
DegreeGuardRaises ==
    /\ tpc = "args"
    /\ \E m \in MinDegs :
          /\ degree_guard_raises(a_list, m)
          /\ sp_call' = [f |-> "degree_guard", min_deg |-> m]
          /\ sp_out' = SetAsSeq(below_min(a_list, m))
    /\ sp_pc' = "raised"
    /\ tpc' = "called"
    /\ UNCHANGED <<engineVars, cfgVars, wrapVars, switchVars, variant, e_space, n_space, coord, descended>>

\* k_edge_guard(a_list, k) on a k-edge-connected net: the guard is returned
CallKEdgeGuard ==
    /\ tpc = "args"
    /\ \E k \in Ks :
          /\ ~k_edge_guard_raises(a_list, k)
          /\ sp_call' = [f |-> "k_edge_guard", k |-> k]
    /\ sp_pc' = "returned"
    /\ tpc' = "called"
    /\ UNCHANGED <<engineVars, cfgVars, wrapVars, switchVars, sp_out, variant, e_space, n_space, coord, descended>>

\* k_edge_guard(a_list, k): ValueError('not k-edge connected')
KEdgeGuardRaises ==
    /\ tpc = "args"
    /\ \E k \in Ks :
          /\ k_edge_guard_raises(a_list, k)
          /\ sp_call' = [f |-> "k_edge_guard", k |-> k]
    /\ sp_pc' = "raised"
    /\ tpc' = "called"
    /\ UNCHANGED <<engineVars, cfgVars, wrapVars, switchVars, sp_out, variant, e_space, n_space, coord, descended>>

\* make_root(make_e_space(...), make_n_space(...))
BuildSpaces ==
    /\ tpc = "args"
    /\ below_min(a_list, minDeg) = {}
    /\ e_space' = make_e_space(e_list(a_list), a_list, minDeg, e_exclude)
    /\ n_space' = make_n_space(n_list, a_list, minDeg, maxSplits)
    /\ coord' = make_root
    /\ tpc' = "walk"
    /\ UNCHANGED <<engineVars, cfgVars, wrapVars, switchVars, splitVars, variant, descended>>

\* make_e_space / make_n_space: ValueError('minimum degree not satisfied at
\* {below_min}'); sp_out holds the nodes the message names
BuildRaises ==
    /\ tpc = "args"
    /\ below_min(a_list, minDeg) # {}
    /\ sp_out' = SetAsSeq(below_min(a_list, minDeg))
    /\ tpc' = "error"
    /\ UNCHANGED <<engineVars, cfgVars, wrapVars, switchVars, sp_pc, sp_call, variant, e_space, n_space, coord, descended>>

Changes(c) == Cardinality(c[1]) + Cardinality(c[2])

\* coord := one of coord.e_children()
EChild ==
    /\ tpc = "walk"
    /\ Changes(coord) < MaxChanges
    /\ LET cs == e_children(coord)
       IN  \E i \in DOMAIN cs : coord' = cs[i]
    /\ UNCHANGED <<engineVars, cfgVars, wrapVars, switchVars, splitVars, tpc, variant, e_space, n_space, descended>>

\* coord := one of coord.n_children()
NChild ==
    /\ tpc = "walk"
    /\ Changes(coord) < MaxChanges
    /\ LET cs == n_children(coord)
       IN  \E i \in DOMAIN cs : coord' = cs[i]
    /\ UNCHANGED <<engineVars, cfgVars, wrapVars, switchVars, splitVars, tpc, variant, e_space, n_space, descended>>

\* coord := one of coord.e_parents()
EParent ==
    /\ tpc = "walk"
    /\ ~e_parents_raises(coord)
    /\ LET cs == e_parents(coord)
       IN  \E i \in DOMAIN cs : coord' = cs[i]
    /\ descended' = FALSE
    /\ UNCHANGED <<engineVars, cfgVars, wrapVars, switchVars, splitVars, tpc, variant, e_space, n_space>>

\* list(coord.e_parents()) raises TypeError
EParentRaises ==
    /\ tpc = "walk"
    /\ e_parents_raises(coord)
    /\ tpc' = "raised"
    /\ UNCHANGED <<engineVars, cfgVars, wrapVars, switchVars, splitVars, variant, e_space, n_space, coord, descended>>

\* coord := one of coord.n_parents()
NParent ==
    /\ tpc = "walk"
    /\ LET cs == n_parents(coord)
       IN  \E i \in DOMAIN cs : coord' = cs[i]
    /\ descended' = FALSE
    /\ UNCHANGED <<engineVars, cfgVars, wrapVars, switchVars, splitVars, tpc, variant, e_space, n_space>>

NextTopo ==
    \/ CallNodeSplits
    \/ NodeSplitsRaises
    \/ CallDegreeGuard
    \/ DegreeGuardRaises
    \/ CallKEdgeGuard
    \/ KEdgeGuardRaises
    \/ BuildSpaces
    \/ BuildRaises
    \/ EChild
    \/ NChild
    \/ EParent
    \/ EParentRaises
    \/ NParent

SpecTopo == InitTopo /\ [][NextTopo]_vars

\* ------------------------------------------------- claims on splits

RECURSIVE Partitions(_)
\* All partitions of the set S into non-empty, pairwise disjoint cells.
Partitions(S) ==
    IF S = {} THEN {{}}
    ELSE LET x == CHOOSE y \in S : TRUE
         IN  UNION {{{B \cup {x}} \cup P : P \in Partitions(S \ (B \cup {x}))} :
                        B \in SUBSET (S \ {x})}

\* The partitions of xs into 2..k cells, each of at least m elements.
LegalPartitions(xs, m, k) ==
    {P \in Partitions(xs) :
        /\ Cardinality(P) >= 2 /\ Cardinality(P) <= k
        /\ \A c \in P : Cardinality(c) >= m}

\* C10: splits produces every unordered partition of xs into 2..max_splits
\* cells of at least min_size elements each; none is missing.
C10_NoPartitionMissing ==
    (sp_pc = "returned" /\ sp_call.f = "splits")
        => \A P \in LegalPartitions(sp_call.xs, sp_call.min_size, sp_call.max_splits) :
              \E i \in DOMAIN sp_out : Range(sp_out[i]) = P

\* ------------------------------------- claims on topology coordinates

RECURSIVE ancestorsWithin(_, _)
\* The coordinates reached from c by 1..k parent moves.
ancestorsWithin(c, k) ==
    IF k = 0 THEN {}
    ELSE LET ps == Range(TopoCoords_parents(c))
         IN  ps \cup UNION {ancestorsWithin(p, k - 1) : p \in ps}

\* C5: with the simple moves, every child of a coordinate reached from the
\* root has that coordinate among its parents, and every coordinate reached
\* from the root by child moves has the root among its ancestors.
C5_ChildParentDuality ==
    (tpc = "walk" /\ variant = "simple" /\ descended)
        => /\ \A c \in Range(TopoCoords_children(coord)) :
                  coord \in Range(TopoCoords_parents(c))
           /\ (coord # make_root => make_root \in ancestorsWithin(coord, Changes(coord)))

\* C5 witness: a coordinate with a switch and a split that still has children.
C5_Witness ==
    /\ tpc = "walk" /\ variant = "simple" /\ descended
    /\ coord[1] # {} /\ coord[2] # {}
    /\ e_children(coord) # <<>> /\ n_children(coord) # <<>>

\* C11: every node-child c2 of a coordinate c has c itself (same ECoord, same
\* NCoord) among its node-parents: removing the added node gives c back.
C11_NodeRoundTrip ==
    (tpc = "walk")
        => \A c2 \in Range(n_children(coord)) : coord \in Range(n_parents(c2))

\* C11 witness: a coordinate that already holds a switch and a split and has
\* a node-child.
C11_Witness ==
    /\ tpc = "walk"
    /\ coord[1] # {} /\ coord[2] # {}
    /\ n_children(coord) # <<>>

\* C6: for a coordinate reached from the root by child moves, with the simple
\* or the coupled moves, children(c) holds no coordinate twice and never c.
C6_ChildrenDistinct ==
    (tpc = "walk" /\ descended)
        => /\ NoDup(TopoCoords_children(coord))
           /\ coord \notin Range(TopoCoords_children(coord))

\* The edges that make_e_space must keep: in e_list, not excluded, and with no
\* incident node of degree min_deg.
SwitchableEdges ==
    {e \in e_list(a_list) :
        /\ e \notin e_exclude
        /\ \A n \in en_connections(a_list, e) : degree(a_list, n) # minDeg}

\* C7: ESpace is exactly the edges of e_list that are not excluded and touch no
\* node of degree min_deg; for the 4-cycle with min_deg = 2 it is empty, and so
\* is e_children(root).
C7_ESpaceExact ==
    (tpc = "walk")
        => /\ e_space = SwitchableEdges
           /\ \A e \in e_space : \A n \in en_connections(a_list, e) :
                  degree(a_list, n) # minDeg
           /\ (a_list = Cycle4 /\ minDeg = 2)
                  => (e_space = {} /\ ECSimple_e_children(make_root) = <<>>)

\* C7 witness: a net where some edge is kept and some edge that is not excluded
\* is dropped for an endpoint at degree min_deg.
C7_Witness ==
    /\ tpc = "walk"
    /\ e_space # {}
    /\ \E e \in e_list(a_list) \ e_exclude : e \notin e_space

\* C8: NSpace[n] is empty for every node n whose degree equals min_deg.
C8_NoSplitAtMinDegree ==
    (tpc = "walk")
        => \A n \in DOMAIN n_space : (degree(a_list, n) = minDeg) => (n_space[n] = {})

C17_ECoordInESpace ==
    (tpc \in {"walk", "raised"}) => coord[1] \subseteq e_space

\* C17 witness: a coordinate with switched edges, reached through a parent
\* move, on a net that has edges outside ESpace.
C17_Witness ==
    /\ tpc = "walk" /\ ~descended
    /\ coord[1] # {}
    /\ e_space # e_list(a_list)

\* The assignments of NSpace at the nodes that c does not split.
OpenSplits(c) == UNION {n_space[n] : n \in {x \in DOMAIN n_space : ~HasNode(c[2], x)}}

\* C21: with the simple moves every move is a unit step in one dimension:
\* e_children yields one coordinate per edge of ESpace not in ECoord, that
\* edge added and NCoord kept; n_children one per unsplit node and assignment
\* of NSpace at it, ECoord kept; e_parents one per switched edge, that edge
\* removed and NCoord kept; n_parents one per split node, its assignment
\* removed and ECoord kept.
C21_SimpleUnitSteps ==
    (tpc = "walk" /\ variant = "simple")
        => /\ Len(e_children(coord)) = Cardinality(e_space \ coord[1])
           /\ Range(e_children(coord))
                  = {<<coord[1] \cup {e}, coord[2]>> : e \in e_space \ coord[1]}
           /\ Len(n_children(coord)) = Cardinality(OpenSplits(coord))
           /\ Range(n_children(coord))
                  = {<<coord[1], coord[2] \cup {sp}>> : sp \in OpenSplits(coord)}
           /\ ~e_parents_raises(coord)
           /\ Len(e_parents(coord)) = Cardinality(coord[1])
           /\ Range(e_parents(coord)) = {<<coord[1] \ {e}, coord[2]>> : e \in coord[1]}
           /\ Len(n_parents(coord)) = Cardinality(coord[2])
           /\ Range(n_parents(coord)) = {<<coord[1], coord[2] \ {sp}>> : sp \in coord[2]}

\* C21 witness: a simple coordinate with a switch and a split, reached through
\* a parent move, that has an edge left to switch and a node left to split.
C21_Witness ==
    /\ tpc = "walk" /\ variant = "simple" /\ ~descended
    /\ coord[1] # {} /\ coord[2] # {}
    /\ e_space \ coord[1] # {}
    /\ OpenSplits(coord) # {}

\* C22: with the coupled moves, no cell of a split in the NCoord of a child
\* of e_children holds a switched edge of the child, and no split is left in
\* it with an empty cell or with fewer than two cells.
C22_CoupledChildrenClean ==
    (tpc = "walk" /\ variant = "coupled")
        => \A c2 \in Range(ECCoupled_e_children(coord)) :
               \A sp \in c2[2] :
                   /\ \A cell \in sp[2] : cell \cap c2[1] = {}
                   /\ \A cell \in sp[2] : cell # {}
                   /\ Cardinality(sp[2]) >= 2

\* C23: with the coupled moves e_parents undoes e_children: for every child
\* c2 of e_children(c), e_parents(c2) does not fail, holds c, and yields
\* exactly one parent per switched edge of c2.
C23_CoupledParentsInvert ==
    (tpc = "walk" /\ variant = "coupled")
        => \A c2 \in Range(e_children(coord)) :
               /\ ~e_parents_raises(c2)
               /\ coord \in Range(e_parents(c2))
               /\ Len(e_parents(c2)) = Cardinality(c2[1])

\* The edges the adjacency list al holds at its node x.
IncidentIn(al, x) == UNION {al[x][nb] : nb \in DOMAIN al[x]}

\* C24: the effective adjacency of a coordinate has one node per unsplit
\* node, holding its base edges minus ECoord, and one sub-node per cell of
\* every split node (for two cells and for more), holding the cell's edges
\* minus ECoord; no switched edge is anywhere in it.
C24_EffectiveAdjacency ==
    (tpc = "walk")
        => LET r == topology_a_list(a_list, coord)
           IN  /\ DOMAIN r
                      = {<<n>> : n \in {x \in DOMAIN a_list : ~HasNode(coord[2], x)}}
                        \cup UNION {{<<sp[1], i - 1>> : i \in 1 .. Cardinality(sp[2])} :
                                       sp \in coord[2]}
               /\ \A n \in {x \in DOMAIN a_list : ~HasNode(coord[2], x)} :
                      IncidentIn(r, <<n>>) = ne_connections(a_list, n) \ coord[1]
               /\ \A sp \in coord[2] :
                      {IncidentIn(r, <<sp[1], i - 1>>) : i \in 1 .. Cardinality(sp[2])}
                          = {(cell \cap e_list(a_list)) \ coord[1] : cell \in sp[2]}
               /\ \A x \in DOMAIN r : IncidentIn(r, x) \cap coord[1] = {}

\* The cells are what C25 asks of an assignment of node n, but for their number.
WellFormedCells(n, cells) ==
    /\ \A cell \in cells : cell # {}
    /\ \A c1, c2 \in cells : c1 # c2 => c1 \cap c2 = {}
    /\ UNION cells = ne_connections(a_list, n) \cup n_list[n]
    /\ \A cell \in cells : Cardinality(cell \cap ne_connections(a_list, n)) >= minDeg

\* C25: every assignment make_n_space stores in NSpace[n] has at least 2 and
\* at most max_splits cells; they are non-empty and pairwise disjoint, their
\* union is the incident and the listed elements of n, and each holds at
\* least min_deg incident edges.
C25_NSpaceAssignments ==
    (tpc = "walk")
        => \A n \in DOMAIN n_space : \A sp \in n_space[n] :
               /\ sp[1] = n
               /\ Cardinality(sp[2]) >= 2
               /\ Cardinality(sp[2]) <= maxSplits
               /\ WellFormedCells(n, sp[2])

\* ------------------------------------------------- claims on the guards

\* The edges that join node 1 and node 5.
JoiningEdges == {e \in e_list(a_list) : en_connections(a_list, e) = {1, 5}}

\* k_edge_guard(a_list, k=2) has been called on the two joined 4-cycles.
KEdgeGuardOnTwoCycles ==
    /\ a_list = TwoCycles
    /\ minDeg = DefaultMinDeg
    /\ tpc = "called"
    /\ sp_call = [f |-> "k_edge_guard", k |-> DefaultK]

\* C12: on two 4-cycles joined by two parallel edges between node 1 and node 5
\* (min_deg = 2) the k = 2 guard is built, and it returns true for the
\* coordinate that switches exactly one of the two joining edges.
C12_GuardHoldsOneSwitched ==
    KEdgeGuardOnTwoCycles
        => /\ sp_pc = "returned"
           /\ \A e \in JoiningEdges : k_edge_guard(a_list, DefaultK, <<{e}, {}>>)

\* C13: on the same graph both joining edges are in ESpace, and the k = 2
\* guard returns false for the coordinate that switches both of them.
C13_GuardFailsBothSwitched ==
    KEdgeGuardOnTwoCycles
        => /\ Cardinality(JoiningEdges) = 2
           /\ JoiningEdges \subseteq make_e_space(e_list(a_list), a_list, minDeg, {})
           /\ sp_pc = "returned"
           /\ ~k_edge_guard(a_list, DefaultK, <<JoiningEdges, {}>>)

\* (a) of C14: every node keeps min_deg edges once ECoord is removed.
NodesKeepDegree(c, m) ==
    \A n \in DOMAIN a_list : Cardinality(ne_connections(a_list, n) \ c[1]) >= m

\* (b) of C14: every cell of a split node holds min_deg unswitched edges.
CellsKeepDegree(c, m) ==
    \A s \in c[2] : \A cell \in s[2] :
        Cardinality((cell \cap e_list(a_list)) \ c[1]) >= m

\* C14: on a base graph that satisfies min_deg, the closure of degree_guard
\* is true on a coordinate iff every node keeps min_deg edges without the
\* switched ones and every cell of a split node holds min_deg unswitched
\* edges; it does not raise.
C14_DegreeGuardExact ==
    (tpc = "walk")
        => \A m \in MinDegs :
               ~degree_guard_raises(a_list, m)
                   => /\ ~check_degree_raises(coord, degree_list(a_list),
                                              en_connection_list(a_list))
                      /\ degree_guard(a_list, m, coord)
                             <=> (NodesKeepDegree(coord, m) /\ CellsKeepDegree(coord, m))

\* C14 witness: a coordinate whose nodes keep their degree while a cell of a
\* split node does not: the guard answers false for the cell alone.
C14_Witness ==
    /\ tpc = "walk"
    /\ coord[1] # {} /\ coord[2] # {}
    /\ NodesKeepDegree(coord, minDeg)
    /\ ~CellsKeepDegree(coord, minDeg)
    /\ ~degree_guard(a_list, minDeg, coord)

\* The net of a_list with its parallel edges: no removal of fewer than k
\* edges disconnects it.
BaseKEdgeConnected(k) ==
    \A F \in {X \in SUBSET e_list(a_list) : Cardinality(X) < k} :
        is_connected(<<DOMAIN a_list,
                       {en_connections(a_list, e) : e \in e_list(a_list) \ F}>>)

\* C15: degree_guard, make_e_space and make_n_space raise, naming the nodes,
\* iff a node of a_list has degree < min_deg; k_edge_guard raises iff the net
\* is not k-edge-connected; a raise returns no guard and no space; a guard
\* that was built does not raise on the coordinates of the traversal.
C15_ErrorsAtConstructionOnly ==
    /\ (tpc = "error")
           => /\ below_min(a_list, minDeg) # {}
              /\ Range(sp_out) = below_min(a_list, minDeg)
              /\ e_space = {} /\ n_space = <<>>
    /\ (tpc = "walk") => below_min(a_list, minDeg) = {}
    /\ (tpc = "called" /\ sp_call.f = "degree_guard")
           => /\ (sp_pc = "raised") <=> (below_min(a_list, sp_call.min_deg) # {})
              /\ (sp_pc = "raised")
                     => Range(sp_out) = below_min(a_list, sp_call.min_deg)
              /\ sp_pc \in {"raised", "returned"}
    /\ (tpc = "called" /\ sp_call.f = "k_edge_guard")
           => /\ (sp_pc = "raised") <=> ~BaseKEdgeConnected(sp_call.k)
              /\ sp_pc \in {"raised", "returned"}
    /\ (tpc = "walk")
           => /\ ~check_degree_raises(coord, degree_list(a_list),
                                      en_connection_list(a_list))
              /\ ~make_graph_raises(a_list, coord, en_connection_list(a_list))

\* C16: every call of the composed guard, the first and the later ones,
\* returns true iff every component is true on the coordinate; the
\* components are invoked in order, up to the first that returns false.
C16_EveryCallIsConjunction ==
    (gw_n > 0)
        => /\ gw_last.ret <=> (\A i \in DOMAIN guard_funcs : gw_last.arg \in guard_funcs[i])
           /\ gw_last.invoked = InvokedFrom(guard_funcs, 1, gw_last.arg)

\* --------------------------------------- claims on the draft edge switches

\* The nx.Graph of a topology.
GraphOf(topology) == <<topology.nodes, topology.edges>>

\* The topologies of the list and of the list under construction.
Topologies == Range(topology_list) \cup Range(new_topology_list)

\* C27: when one edge (u, v) is removed from a k-edge-connected topology, the
\* local test between u and v of the result gives the verdict of the global
\* test of the result; every topology edge_switch keeps is k-edge-connected
\* when the topology the search started from is.
C27_EndpointCheckSuffices ==
    /\ \A t \in Topologies :
           is_k_edge_connected(GraphOf(t), sw_k)
               => \A e \in t.edges :
                      LET uv == SetAsSeq(e)
                          t2 == remove_edge(t, uv[1], uv[2])
                      IN  check_k_edge_connectivity(t2, uv, sw_k)
                              <=> is_k_edge_connected(GraphOf(t2), sw_k)
    /\ is_k_edge_connected(GraphOf(topology_list[1]), sw_k)
           => \A t \in Topologies : is_k_edge_connected(GraphOf(t), sw_k)

\* C27 witness: two calls on a 2-edge-connected topology have kept a copy
\* and have dropped one.
C27_Witness ==
    /\ sw_k = DefaultK
    /\ is_k_edge_connected(GraphOf(topology_list[1]), sw_k)
    /\ sw_n = MaxSweeps /\ sw_pc = "idle"
    /\ Len(topology_list) = 3
    /\ \A i \in DOMAIN topology_list : topology_list[i].switchable_edges = <<>>

\* ------------------------------------------------- claims on the engine

\* The coordinates the direction function produces from c, before the guard:
\* the arc targets, the arc sources, or both, whatever the enumeration order.
produced(dir, c) ==
    CASE dir = "adjacent" -> {t \in Coords : <<c, t>> \in arcs \/ <<t, c>> \in arcs}
      [] dir = "children" -> {t \in Coords : <<c, t>> \in arcs}
      [] dir = "parents"  -> {t \in Coords : <<t, c>> \in arcs}

RECURSIVE PathEndsFrom(_, _, _)
\* The coordinates that end a path of 1..k steps from a coordinate of ends,
\* every step produced by the direction and the guard holding on every
\* coordinate after the first.
PathEndsFrom(dir, ends, k) ==
    IF k = 0 THEN {}
    ELSE LET nxt == {t \in Coords : guard(t) /\ \E s \in ends : t \in produced(dir, s)}
         IN  nxt \cup PathEndsFrom(dir, nxt, k - 1)

\* The ends of the guarded paths coords = c0, c1, ..., cj with 1 <= j <= k.
PathTargets(dir, k) == PathEndsFrom(dir, {coords}, k)

\* C1 (as stated): neighborhood / descendants / ancestors include the start
\* coordinate for every depth >= 0, and depth = 0 returns exactly <<coords>>.
C1_StartIncluded ==
    (fn = "explore" /\ pc = "done" /\ depth >= 0)
        => (coords \in Range(out) /\ (depth = 0 => out = <<coords>>))

\* C1 (amended): neighborhood / descendants / ancestors never include the
\* start coordinate, for every depth >= 0; a call with depth = 0 yields nothing.
C1_StartExcluded ==
    (fn = "explore" /\ depth >= 0)
        => (coords \notin Range(out) /\ (depth = 0 => out = <<>>))

\* A finished depth-0 call on a start coordinate that has neighbours.
C1_Witness ==
    /\ fn = "explore" /\ pc = "done" /\ depth = 0
    /\ produced(direction, coords) # {}
    /\ out = <<>>

\* C2: explore, reach and area raise a configuration error iff depth < 0.
C2_NegativeDepthRaises ==
    (fn \in {"explore", "reach", "area"} /\ pc = "done") => (raised <=> depth < 0)

\* C3: the sequence emitted by explore holds no coordinate twice and never
\* holds the start coordinate, also when the start is reachable from itself.
C3_NoCoordinateTwice ==
    fn = "explore" => (NoDup(out) /\ coords \notin Range(out))

\* A finished neighborhood call of depth 2 whose first emitted coordinate
\* leads back to the start and was produced twice in its round.
C3_Witness ==
    /\ fn = "explore" /\ pc = "done" /\ depth = 2 /\ direction = "adjacent"
    /\ out # <<>>
    /\ coords \in Range(step(direction, out[1]))
    /\ Len(SelectSeq(step(direction, coords), LAMBDA x : x = out[1])) = 2

\* C4: apart from the start, explore emits exactly the ends of the guarded
\* paths of length 1..depth (after d rounds: of length 1..d, and a finished
\* call has made depth rounds); a rejected candidate is not emitted and the
\* candidates after it still are.
C4_EmitsGuardedPathEnds ==
    (fn = "explore" /\ depth >= 0)
        => /\ Range(out) = PathTargets(direction, d) \ {coords}
           /\ pc = "done" => d = depth
           /\ \A c \in Range(out) : guard(c)

\* A finished call in which the guard rejected a candidate of the first round
\* and a candidate enumerated after it was emitted.
C4_Witness ==
    /\ fn = "explore" /\ pc = "done" /\ depth >= 1
    /\ \E r, t \in produced(direction, coords) :
          /\ r < t
          /\ ~guard(r)
          /\ t \in Range(out)

\* C26: in one call of explore the guard is called only on coordinates the
\* direction produced from a member of a frontier (the start or an emitted
\* coordinate), on no coordinate more than once, and not on a coordinate
\* that is in seen already (the start is from the beginning).
C26_GuardOncePerCoordinate ==
    (fn = "explore")
        => /\ Range(evals) \subseteq
                  UNION {produced(direction, q) : q \in {coords} \cup Range(out)}
           /\ NoDup(evals)
           /\ coords \notin Range(evals)

\* C18: area returns just the coordinates newly discovered in its final
\* round (the depth-th); those first discovered in an earlier round are not
\* part of its output.  After the last round queue holds that round's set.
C18_AreaFinalRoundOnly ==
    (fn = "area" /\ pc = "done" /\ depth > 0) => Range(out) = Range(queue)

\* C19: two runs of explore with the same start, direction, depth and guard
\* emit the same sequence, in membership and in order: a finished run has
\* emitted what any run on its inputs emits, whatever the order in which
\* that run's sets iterate.
C19_SameInputsSameSequence ==
    (fn = "explore" /\ pc = "done")
        => \A ord \in IterOrders : out = exploreIn(ord, coords, direction, depth)

\* C20: explore with depth >= 0 terminates, after at most depth rounds;
\* once a round has left the frontier empty, no coordinate is emitted and no
\* guard or direction call is made any more.
C20_TerminatesQuietly ==
    /\ []((fn = "explore" /\ depth >= 0) => d <= depth)
    /\ [][(fn = "explore" /\ pc = "loop" /\ d > 0 /\ queue = <<>>)
              => (out' = out /\ calls' = calls)]_vars
    /\ (fn = "explore" /\ pc = "loop") ~> (fn = "explore" /\ pc = "done")

\* C20 witness: a finished run whose first round called the direction and
\* the guard and left the frontier empty, and whose later rounds ran on it.
C20_Witness ==
    /\ fn = "explore" /\ pc = "done"
    /\ depth >= 2 /\ d = depth
    /\ candidates(direction, coords) # <<>>
    /\ out = <<>>
    /\ calls = 1 + Len(candidates(direction, coords))

\* C28: area called on the queue {c} with exclude = {c} emits, round by
\* round, the sequence explore emits from c with the same direction, depth
\* and guard; and area, whatever queue and exclude it is given, emits no
\* coordinate of that exclude set and no coordinate twice.
C28_AreaResumesExplore ==
    (fn = "area")
        => /\ \A c \in Coords :
                  (q_arg = {c} /\ ex_arg = {c})
                      => /\ out = exploreIn(iter, c, direction, d)
                         /\ (pc = "done" /\ depth >= 0) => d = depth
           /\ Range(out) \cap ex_arg = {}
           /\ NoDup(out)

\* C28 witness: a finished area call of depth 2 on {c} with exclude {c}
\* whose second round produced c again and emitted something new.
C28_Witness ==
    /\ fn = "area" /\ pc = "done" /\ depth = 2
    /\ \E c \in Coords :
          /\ q_arg = {c} /\ ex_arg = {c}
          /\ Len(out) >= 2
          /\ c \in Range(step(direction, out[1]))

\* C29: reach emits no coordinate at all, whatever queue, direction, depth,
\* exclude set and guard it is given; the exclude set it accumulates has no
\* effect on what it emits.
C29_ReachEmitsNothing ==
    (fn = "reach") => out = <<>>

\* C29 witness: a finished reach call of depth 2 with a non-empty exclude
\* set whose levels found coordinates that were not excluded.
C29_Witness ==
    /\ fn = "reach" /\ pc = "done" /\ depth = 2 /\ d = 2
    /\ ex_arg # {}
    /\ queue # <<>>
    /\ ~(seen \subseteq ex_arg)
    /\ out = <<>>

\* C30: the depth-first draft crawler emits the set of coordinates that the
\* breadth-first explore emits from the same start with the same direction,
\* depth, guard and enumeration order, for every finite coordinate graph.
C30_CrawlerEmitsExploreSet ==
    (fn = "crawler" /\ pc = "done" /\ ~raised)
        => Range(out) = Range(exploreIn(iter, coords, direction, depth))

====
